---- MODULE Spec2Model ----
(***************************************************************************)
(* Model of adf_z_critical_values_simulation_large_cluster.py: the driver  *)
(* loop over (trend, sample length), the IPython.parallel pool it submits  *)
(* to, clear_cache, and the blocked simulation wrapper / adf_simulation.   *)
(* Python's 0-based indices i, r are 1-based here.                         *)
(***************************************************************************)
EXTENDS Integers, Sequences, FiniteSets, TLC

\* ------------------------------------------------------------ bounds
\* Replications per cell; the program runs 500 (line 26), the model a few.
EX_NUM == 2
\* How many of the 31 sample lengths of T the model walks through.
MaxLengths == 2
\* Engines of the cluster (ipcluster start -n ...).
NumEngines == 2
\* Length of the percentile grid; the program uses 199 levels (line 131).
NumPct == 2
\* clear_cache calls a stand-alone caller makes (SpecCache only).
MaxCalls == 2
\* Largest sample length and largest draw count a wrapper call is tried with.
MaxN == 3
MaxDraws == 3

\* ------------------------------------------------- program constants
EX_SIZE == 200000
PRINT_EVERY == 10
MAX_MEMORY_SIZE == 100
MiB == 1048576
BURN_IN == 50

trends == <<"nc", "c", "ct", "ctt">>

TList ==
  <<20, 25, 30, 35, 40, 45, 50, 60, 70, 80, 90, 100, 120, 140, 160,
    180, 200, 250, 300, 350, 400, 450, 500, 600, 700, 800, 900,
    1000, 1200, 1400, 2000>>

NotReversed(s) == s

\* s[::-1]
Reverse(s) == [k \in 1..Len(s) |-> s[Len(s) + 1 - k]]

\* T = T[::-1], cut to the lengths the model walks through.
T == SubSeq(Reverse(TList), 1, MaxLengths)

m == Len(T)

\* list(arange(0.5, 100.0, 0.5)), level k standing for 0.5 * k.
percentiles == [k \in 1..NumPct |-> k]

Units == 1..EX_NUM
Engines == 1..NumEngines

\* seeds = list(random_integers(0, 2 ** 31 - 2, size=EX_NUM)) after seed(0):
\* entry p is the p-th integer of the generator seeded with 0.
seeds == [p \in Units |-> [master |-> 0, pos |-> p]]

\* nan, the "missing" sentinel of the table.
NaN == [nan |-> TRUE]

VARIABLES
  pc,            \* the driver's position in the script
  tri,           \* index into trends of the current tr (0 before the loop)
  i,             \* index into T of the current t (0 before the inner loop)
  results,       \* results[p][i][r], the table of the current trend
  out,           \* out = res.get()
  sleep_count,   \* held modulo 10, the only way line 153 reads it
  files,         \* the artifacts on disk, by filename
  abort,         \* the exception that ended the script, "" if none
  handed,        \* history: which seed position each submitted unit got
  task,          \* pool: state of each unit of the current batch
  targs,         \* pool: the arguments each unit was submitted with
  value,         \* pool: the value each finished unit returned
  engine,        \* pool: the unit each engine is running, 0 if idle
  order,         \* pool: the units in the order they finished
  hub,           \* controller: units whose results it retains
  rc,            \* the Client: outstanding, results, metadata, history, digests
  lview,         \* the load-balanced view: results, history
  cacheOutcome,  \* how the last clear_cache call ended
  cacheCalls,    \* history: number of clear_cache calls so far
  w              \* one call of wrapper on an engine: its arguments and locals

driverVars == <<pc, tri, i, results, out, sleep_count, files, abort, handed>>
poolVars == <<task, targs, value, engine, order, hub>>
clientVars == <<rc, lview>>
cacheVars == <<cacheOutcome, cacheCalls>>
vars == <<driverVars, poolVars, clientVars, cacheVars, w>>

\* ------------------------------------------------------ unit of work
\* The vector wrapper(n, trend, b, rng_seed) returns, as a function of its
\* arguments alone (wrapper reads nothing else but MAX_MEMORY_SIZE).
RunUnit(a) == [draws_of |-> a]

\* percentile(x, percentiles)[p]
Percentile(x, p) == [level |-> percentiles[p], of |-> x]

\* The argument tuples map_async zips from [t] * EX_NUM, [tr] * EX_NUM,
\* [EX_SIZE] * EX_NUM and seeds.
MapArgsSameSeed(t, trend) ==
  [r \in Units |->
     [n |-> t, trend |-> trend, b |-> EX_SIZE, rng_seed |-> seeds[1]]]

MapArgs(t, trend) ==
  [r \in Units |->
     [n |-> t, trend |-> trend, b |-> EX_SIZE, rng_seed |-> seeds[r]]]

\* ------------------------------------------- wrapper, adf_simulation
\* int(x / y) for x >= 0 and y # 0: Python's int() cuts towards zero.
TruncDiv(x, y) == IF y > 0 THEN x \div y ELSE -(x \div (-y))

\* int(2 ** 20.0 * MAX_MEMORY_SIZE / (8.0 * n)), with max_bytes standing for
\* 2 ** 20.0 * MAX_MEMORY_SIZE (MAX_MEMORY_SIZE is any positive number).
BlockSizeRoundedUp(n, max_bytes) == TruncDiv(max_bytes, 8 * n) + 1

BlockSize(n, max_bytes) == TruncDiv(max_bytes, 8 * n)

\* zeros(b)[k]
Zero == [zero |-> TRUE]

\* z of lines 88-95: None, or the shape of the regressor matrix.
NoRegressors == [none |-> TRUE]

Regressors(trend, nobs) ==
  CASE trend = "c" -> [rows |-> nobs, cols |-> 1]
    [] trend = "ct" -> [rows |-> nobs, cols |-> 2]
    [] trend = "ctt" -> [rows |-> nobs, cols |-> 3]
    [] OTHER -> NoRegressors

\* rng = None, the default of adf_simulation's last parameter.
NoRng == [no_rng |-> TRUE]

\* The module-level generator of numpy.random right after seed(0).
GlobalReseeded == [seed |-> [global |-> 0], pos |-> 0, seedings |-> 1]

\* Rows left of a matrix of `rows` rows by y[k:] (and by y[:-k]).
SliceOff(rows, k) == IF rows > k THEN rows - k ELSE 0

\* The row counts of lines 97-101, with the burn-in not discarded from a
\* matrix that was drawn one row short.
ShapesShort(n) ==
  LET y_rows == (n - 1) + BURN_IN
      kept_rows == SliceOff(y_rows, BURN_IN)
  IN  [y_rows |-> y_rows, kept_rows |-> kept_rows,
       lhs_rows |-> SliceOff(kept_rows, 1), rhs_rows |-> SliceOff(kept_rows, 1)]

\* The row counts of lines 97-101: y = standard_normal((n + 50, b)),
\* y = y[50:, :], lhs = y[1:, :], rhs = y[:-1, :].
Shapes(n) ==
  LET y_rows == n + BURN_IN
      kept_rows == SliceOff(y_rows, BURN_IN)
  IN  [y_rows |-> y_rows, kept_rows |-> kept_rows,
       lhs_rows |-> SliceOff(kept_rows, 1), rhs_rows |-> SliceOff(kept_rows, 1)]

\* adf_simulation(n, trend, b, rng).  Without rng the module-level generator
\* is re-seeded with 0 and drawn from.  standard_normal((n + 50, b)) fills
\* the matrix row by row from the stream, so column c holds the normals at
\* positions c, b + c, 2b + c, ... after the generator's position; a
\* statistic is a function of its column, of z and of nobs = lhs.shape[0].
adf_simulation(n, trend, b, rng) ==
  LET gen == IF rng = NoRng THEN GlobalReseeded ELSE rng
      nobs == n - 1
      z == Regressors(trend, nobs)
      sh == Shapes(n)
  IN  [stat |-> [c \in 1..b |->
                   [nobs |-> sh.lhs_rows,
                    z |-> z,
                    seed |-> gen.seed,
                    normals |-> [row \in 1..sh.y_rows |->
                                   gen.pos + (row - 1) * b + (c - 1)]]],
       y_rows |-> sh.y_rows,
       lhs_rows |-> sh.lhs_rows,
       rhs_rows |-> sh.rhs_rows,
       z |-> z,
       rng |-> [gen EXCEPT !.pos = @ + sh.y_rows * b]]

\* rng = RandomState() before rng.seed(rng_seed).
Unseeded == [seed |-> NaN, pos |-> 0, seedings |-> 0]

\* The frame of a call wrapper(n, trend, b, rng_seed) before its first line.
WrapperCall(n, trend, b, rng_seed, max_bytes) ==
  [pc |-> "call", n |-> n, trend |-> trend, b |-> b, rng_seed |-> rng_seed,
   max_bytes |-> max_bytes, rng |-> Unseeded, remaining |-> 0, res |-> <<>>,
   finished |-> 0, block_size |-> 0, j |-> 0, exc |-> "", blocks |-> <<>>]

NoCall == [WrapperCall(0, "", 0, NaN, 0) EXCEPT !.pc = "idle"]

\* Lines 57-63 up to the creation of range(0, b, block_size): zeros(b)
\* raises ValueError for b < 0, the division raises ZeroDivisionError for
\* n = 0, and range raises ValueError for a step of 0.
WrapperEnter(x) ==
  LET seeded == [x EXCEPT !.rng = [seed |-> x.rng_seed, pos |-> 0,
                                   seedings |-> x.rng.seedings + 1],
                          !.remaining = x.b]
  IN  IF x.b < 0
        THEN [seeded EXCEPT !.pc = "raised", !.exc = "ValueError"]
      ELSE LET alloc == [seeded EXCEPT !.res = [k \in 1..x.b |-> Zero],
                                       !.finished = 0]
           IN  IF x.n = 0
                 THEN [alloc EXCEPT !.pc = "raised",
                                    !.exc = "ZeroDivisionError"]
               ELSE IF BlockSize(x.n, x.max_bytes) = 0
                 THEN [alloc EXCEPT !.pc = "raised", !.exc = "ValueError",
                                    !.block_size = 0]
               ELSE [alloc EXCEPT !.pc = "loop", !.j = 0,
                       !.block_size = BlockSize(x.n, x.max_bytes)]

\* Whether range(0, b, block_size) has a value at j.
WrapperHasNext(x) == IF x.block_size > 0 THEN x.j < x.b ELSE x.j > x.b

\* What a pass of the loop leaves in the log of blocks.
BlockEntry(st, en, count, before, sim) ==
  [st |-> st, en |-> en, count |-> count, from |-> before.pos,
   to |-> sim.rng.pos, seed |-> sim.rng.seed, y_rows |-> sim.y_rows,
   lhs_rows |-> sim.lhs_rows, rhs_rows |-> sim.rhs_rows, z |-> sim.z]

\* The loop body with count = block_size whatever remains.
WrapperIterFullBlock(x) ==
  LET count == x.block_size
      st == x.finished
      en == x.finished + count
      sim == adf_simulation(x.n, x.trend, count, x.rng)
  IN  [x EXCEPT
         !.res = [k \in 1..x.b |->
                    IF st < k /\ k <= en THEN sim.stat[k - st] ELSE x.res[k]],
         !.rng = sim.rng,
         !.finished = @ + count,
         !.remaining = @ - count,
         !.j = @ + x.block_size,
         !.blocks = Append(@, BlockEntry(st, en, count, x.rng, sim))]

\* The loop body calling adf_simulation(n, trend, count) without rng.
WrapperIterNoRng(x) ==
  LET count == IF x.block_size < x.remaining THEN x.block_size
               ELSE x.remaining
      st == x.finished
      en == x.finished + count
      sim == adf_simulation(x.n, x.trend, count, NoRng)
  IN  [x EXCEPT
         !.res = [k \in 1..x.b |->
                    IF st < k /\ k <= en THEN sim.stat[k - st] ELSE x.res[k]],
         !.finished = @ + count,
         !.remaining = @ - count,
         !.j = @ + x.block_size,
         !.blocks = Append(@, BlockEntry(st, en, count, GlobalReseeded, sim))]

\* One pass of the loop body, lines 64-72.
WrapperIter(x) ==
  LET count == IF x.block_size < x.remaining THEN x.block_size
               ELSE x.remaining
      st == x.finished
      en == x.finished + count
      sim == adf_simulation(x.n, x.trend, count, x.rng)
  IN  [x EXCEPT
         !.res = [k \in 1..x.b |->
                    IF st < k /\ k <= en THEN sim.stat[k - st] ELSE x.res[k]],
         !.rng = sim.rng,
         !.finished = @ + count,
         !.remaining = @ - count,
         !.j = @ + x.block_size,
         !.blocks = Append(@, BlockEntry(st, en, count, x.rng, sim))]

\* return res
WrapperReturn(x) == [x EXCEPT !.pc = "returned"]

\* The whole call, from any point of it to its end.
RECURSIVE RunWrapper(_)
RunWrapper(x) ==
  CASE x.pc = "call" -> RunWrapper(WrapperEnter(x))
    [] x.pc = "loop" /\ WrapperHasNext(x) -> RunWrapper(WrapperIter(x))
    [] x.pc = "loop" /\ ~WrapperHasNext(x) -> WrapperReturn(x)
    [] OTHER -> x

\* ------------------------------------------------------------- pool
EmptyClient ==
  [outstanding |-> {}, results |-> {}, metadata |-> {}, history |-> <<>>,
   digest_history |-> {}]

EmptyView == [results |-> {}, history |-> <<>>]

Finished(r) == task[r] \in {"ok", "raised"}

\* lview.map_async(f, ...): the units are queued, the client records them
\* as outstanding and in the histories; the call does not wait.
map_async(args) ==
  /\ task' = [r \in Units |-> "queued"]
  /\ targs' = args
  /\ value' = [r \in Units |-> NaN]
  /\ order' = <<>>
  /\ rc' = [rc EXCEPT !.outstanding = @ \cup Units,
                      !.history = @ \o [r \in Units |-> r],
                      !.digest_history = @ \cup Units]
  /\ lview' = [lview EXCEPT !.history = @ \o [r \in Units |-> r]]
  /\ UNCHANGED <<engine, hub>>

\* client.spin(): the replies of the finished units are taken in.
Spin(c) ==
  LET got == {r \in c.outstanding : Finished(r)}
  IN  [c EXCEPT !.outstanding = @ \ got,
                !.results = @ \cup got,
                !.metadata = @ \cup got,
                !.digest_history = @ \cup got]

ReadyWhenAnyDone(c) == c.outstanding \cap Units # Units

\* res.ready(), evaluated on the client after it has spun.
Ready(c) == c.outstanding \cap Units = {}

\* The scheduler hands a queued unit to an idle engine.
Schedule(e, r) ==
  /\ engine[e] = 0
  /\ task[r] = "queued"
  /\ engine' = [engine EXCEPT ![e] = r]
  /\ task' = [task EXCEPT ![r] = "running"]
  /\ UNCHANGED <<driverVars, targs, value, order, hub, clientVars, cacheVars, w>>

\* The engine returns from wrapper.
Finish(e) ==
  /\ engine[e] # 0
  /\ task[engine[e]] = "running"
  /\ LET r == engine[e] IN
       /\ task' = [task EXCEPT ![r] = "ok"]
       /\ value' = [value EXCEPT ![r] = RunUnit(targs[r])]
       /\ order' = Append(order, r)
       /\ hub' = hub \cup {r}
  /\ engine' = [engine EXCEPT ![e] = 0]
  /\ UNCHANGED <<driverVars, targs, clientVars, cacheVars, w>>

\* wrapper raises on the engine; the error is the unit's reply.
Raise(e) ==
  /\ engine[e] # 0
  /\ task[engine[e]] = "running"
  /\ LET r == engine[e] IN
       /\ task' = [task EXCEPT ![r] = "raised"]
       /\ order' = Append(order, r)
       /\ hub' = hub \cup {r}
  /\ engine' = [engine EXCEPT ![e] = 0]
  /\ UNCHANGED <<driverVars, targs, value, clientVars, cacheVars, w>>

\* The engine dies or loops: the unit never completes, no reply is sent.
Hang(e) ==
  /\ engine[e] # 0
  /\ task[engine[e]] = "running"
  /\ task' = [task EXCEPT ![engine[e]] = "hung"]
  /\ UNCHANGED <<driverVars, targs, value, engine, order, hub, clientVars,
                 cacheVars, w>>

\* res.get() of a ready AsyncMapResult: the values in submission order.
ResGetCompletionOrder(vals, ord) == [k \in Units |-> vals[ord[k]]]

ResGet(vals, ord) == [r \in Units |-> vals[r]]

\* ------------------------------------------------------ clear_cache
\* The purge of lines 43-49.
Purged(client) ==
  [client EXCEPT !.results = {}, !.metadata = {}, !.history = <<>>,
                 !.digest_history = {}]

clear_cache_unguarded(client, view) ==
  /\ cacheCalls' = cacheCalls + 1
  /\ cacheOutcome' = "purged"
  /\ hub' = {}
  /\ rc' = Purged(client)
  /\ lview' = EmptyView

\* clear_cache(client, view); the assertion reads the module-level rc, which
\* is the client of the script's only Client() and of its only call.
clear_cache(client, view) ==
  /\ cacheCalls' = cacheCalls + 1
  /\ IF rc.outstanding # {}
       THEN /\ cacheOutcome' = "AssertionError"
            /\ UNCHANGED <<hub, rc, lview>>
       ELSE /\ cacheOutcome' = "purged"
            /\ hub' = {}
            /\ rc' = Purged(client)
            /\ lview' = [view EXCEPT !.results = {}, !.history = <<>>]

\* ----------------------------------------------------------- driver
tr == trends[tri]

FilenameOfFirst(t) == "adf_z_" \o trends[1] \o ".npz"

\* 'adf_z_' + tr + '.npz'
Filename(t) == "adf_z_" \o t \o ".npz"

Filenames == {Filename(trends[k]) : k \in 1..Len(trends)}

filename == Filename(tr)

\* zeros((len(percentiles), m, EX_NUM)) * nan
NanTable == [p \in 1..NumPct |-> [k \in 1..m |-> [r \in Units |-> NaN]]]

\* quantiles = lmap(lambda x: percentile(x, percentiles), out)
Quantiles(o) == [r \in Units |-> [p \in 1..NumPct |-> Percentile(o[r], p)]]

\* results[:, i, :] = array(quantiles).T
SetSliceWholeTable(tab, k, q) ==
  [p \in 1..NumPct |-> [j \in 1..m |-> [r \in Units |-> q[r][p]]]]

SetSlice(tab, k, q) ==
  [p \in 1..NumPct |-> [tab[p] EXCEPT ![k] = [r \in Units |-> q[r][p]]]]

\* What savez(filename, trend=tr, results=results, ...) leaves on disk.  It
\* opens the target itself for writing, which truncates it, and then adds
\* the arrays one by one: an error before the open leaves the old file, an
\* error after it leaves a truncated archive.
Archive ==
  [state |-> "archive", trend |-> tr, results |-> results,
   percentiles |-> percentiles, T |-> T]

Absent == [state |-> "absent"]

Truncated == [state |-> "truncated"]

SavezOutcomes == {"ok", "error_before_open", "error_partway"}

savez(old, outcome) ==
  CASE outcome = "ok" -> Archive
    [] outcome = "error_before_open" -> old
    [] outcome = "error_partway" -> Truncated

Init ==
  /\ pc = "trend"
  /\ tri = 0
  /\ i = 0
  /\ results = NanTable
  /\ out = <<>>
  /\ sleep_count = 0
  /\ files = [f \in Filenames |-> Absent]
  /\ abort = ""
  /\ handed = {}
  /\ task = [r \in Units |-> "none"]
  /\ targs = [r \in Units |-> NaN]
  /\ value = [r \in Units |-> NaN]
  /\ engine = [e \in Engines |-> 0]
  /\ order = <<>>
  /\ hub = {}
  /\ rc = EmptyClient
  /\ lview = EmptyView
  /\ cacheOutcome = "none"
  /\ cacheCalls = 0
  /\ w = NoCall

\* for tr in trends: results = ...; filename = ...   (or the script ends)
NextTrend ==
  /\ pc = "trend"
  /\ IF tri < Len(trends)
       THEN /\ tri' = tri + 1
            /\ results' = NanTable
            /\ i' = 0
            /\ pc' = "submit"
       ELSE /\ pc' = "done"
            /\ UNCHANGED <<tri, results, i>>
  /\ UNCHANGED <<out, sleep_count, files, abort, handed, poolVars, clientVars,
                 cacheVars, w>>

\* for i, t in enumerate(T): res = lview.map_async(...); sleep_count = 0
Submit ==
  /\ pc = "submit"
  /\ i' = i + 1
  /\ map_async(MapArgs(T[i + 1], tr))
  /\ handed' = handed \cup
       {[tr |-> tr, i |-> i + 1, r |-> r,
         pos |-> MapArgs(T[i + 1], tr)[r].rng_seed.pos] : r \in Units}
  /\ sleep_count' = 0
  /\ pc' = "await"
  /\ UNCHANGED <<tri, results, out, files, abort, cacheVars, w>>

\* while not res.ready(): sleep_count += 1; ...; time.sleep(SLEEP)
Poll ==
  /\ pc = "await"
  /\ rc' = Spin(rc)
  /\ IF Ready(Spin(rc))
       THEN /\ pc' = "get"
            /\ UNCHANGED sleep_count
       ELSE /\ pc' = "await"
            /\ sleep_count' = (sleep_count + 1) % PRINT_EVERY
  /\ UNCHANGED <<tri, i, results, out, files, abort, handed, poolVars, lview,
                 cacheVars, w>>

\* out = res.get(): re-raises what a unit raised, else the ordered values.
Get ==
  /\ pc = "get"
  /\ IF \E r \in Units : task[r] = "raised"
       THEN /\ pc' = "aborted"
            /\ abort' = "WorkerFailure"
            /\ UNCHANGED out
       ELSE /\ pc' = "clear"
            /\ out' = ResGet(value, order)
            /\ UNCHANGED abort
  /\ UNCHANGED <<tri, i, results, sleep_count, files, handed, poolVars,
                 clientVars, cacheVars, w>>

\* The round without line 160.
ClearCacheSkipped ==
  /\ pc = "clear"
  /\ pc' = "reduce"
  /\ UNCHANGED <<tri, i, results, out, sleep_count, files, abort, handed,
                 poolVars, clientVars, cacheVars, w>>

\* clear_cache(rc, lview)
ClearCache ==
  /\ pc = "clear"
  /\ clear_cache(rc, lview)
  /\ IF rc.outstanding # {}
       THEN pc' = "aborted" /\ abort' = "AssertionError"
       ELSE pc' = "reduce" /\ UNCHANGED abort
  /\ UNCHANGED <<tri, i, results, out, sleep_count, files, handed, task, targs,
                 value, engine, order, w>>

\* quantiles = ...; results[:, i, :] = array(quantiles).T
Reduce ==
  /\ pc = "reduce"
  /\ results' = SetSlice(results, i, Quantiles(out))
  /\ pc' = "savez"
  /\ UNCHANGED <<tri, i, out, sleep_count, files, abort, handed, poolVars,
                 clientVars, cacheVars, w>>

\* savez(filename, ...), then the next t, or the next tr after the last t.
Savez ==
  /\ pc = "savez"
  /\ \E outcome \in SavezOutcomes :
       /\ files' = [files EXCEPT ![filename] = savez(@, outcome)]
       /\ IF outcome = "ok"
            THEN /\ pc' = IF i < m THEN "submit" ELSE "trend"
                 /\ UNCHANGED abort
            ELSE /\ pc' = "aborted"
                 /\ abort' = "PersistenceFailure"
  /\ UNCHANGED <<tri, i, results, out, sleep_count, handed, poolVars,
                 clientVars, cacheVars, w>>

Next ==
  \/ NextTrend
  \/ Submit
  \/ Poll
  \/ Get
  \/ ClearCache
  \/ Reduce
  \/ Savez
  \/ \E e \in Engines, r \in Units : Schedule(e, r)
  \/ \E e \in Engines : Finish(e)
  \/ \E e \in Engines : Raise(e)
  \/ \E e \in Engines : Hang(e)

Spec == Init /\ [][Next]_vars

\* ------------------------------------- a stand-alone caller of the pool
\* The pool and clear_cache driven by a caller that submits a batch, lets
\* the client take replies in and calls clear_cache at moments of its own
\* choosing, which the driver loop never does.
InitCache ==
  /\ pc = "caller"
  /\ tri = 0
  /\ i = 0
  /\ results = NanTable
  /\ out = <<>>
  /\ sleep_count = 0
  /\ files = [f \in Filenames |-> Absent]
  /\ abort = ""
  /\ handed = {}
  /\ task = [r \in Units |-> "none"]
  /\ targs = [r \in Units |-> NaN]
  /\ value = [r \in Units |-> NaN]
  /\ engine = [e \in Engines |-> 0]
  /\ order = <<>>
  /\ hub = {}
  /\ rc = EmptyClient
  /\ lview = EmptyView
  /\ cacheOutcome = "none"
  /\ cacheCalls = 0
  /\ w = NoCall

\* A batch is submitted when nothing of an earlier one is retained.
CallMapAsync ==
  /\ pc = "caller"
  /\ rc.history = <<>>
  /\ \A r \in Units : task[r] \in {"none", "ok", "raised"}
  /\ \E k \in 1..m, t \in 1..Len(trends) : map_async(MapArgs(T[k], trends[t]))
  /\ UNCHANGED <<driverVars, cacheVars, w>>

\* res.ready() or client.spin() outside a wait loop.
CallSpin ==
  /\ pc = "caller"
  /\ rc' = Spin(rc)
  /\ UNCHANGED <<driverVars, poolVars, lview, cacheVars, w>>

CallClearCache ==
  /\ pc = "caller"
  /\ cacheCalls < MaxCalls
  /\ clear_cache(rc, lview)
  /\ UNCHANGED <<driverVars, task, targs, value, engine, order, w>>

NextCache ==
  \/ CallMapAsync
  \/ CallSpin
  \/ CallClearCache
  \/ \E e \in Engines, r \in Units : Schedule(e, r)
  \/ \E e \in Engines : Finish(e)
  \/ \E e \in Engines : Raise(e)
  \/ \E e \in Engines : Hang(e)

SpecCache == InitCache /\ [][NextCache]_vars

\* ------------------------------------------------ one call of wrapper
TrendInputs == {"nc", "c", "ct", "ctt", "cc"}

\* n = 1 is left out: pinv of a matrix without rows is an error in some
\* numpy releases and an empty matrix in others.
NInputs == (-1..MaxN) \ {1}

BInputs == -1..MaxDraws

\* 2 ** 20.0 * MAX_MEMORY_SIZE for the script's setting, for 1 MiB and for
\* settings that give blocks of a few draws.
ByteBudgets ==
  {8 * q : q \in 1..(MaxN * MaxDraws)} \cup {MiB, MiB * MAX_MEMORY_SIZE}

InitWrapper ==
  /\ pc = "engine"
  /\ tri = 0
  /\ i = 0
  /\ results = NanTable
  /\ out = <<>>
  /\ sleep_count = 0
  /\ files = [f \in Filenames |-> Absent]
  /\ abort = ""
  /\ handed = {}
  /\ task = [r \in Units |-> "none"]
  /\ targs = [r \in Units |-> NaN]
  /\ value = [r \in Units |-> NaN]
  /\ engine = [e \in Engines |-> 0]
  /\ order = <<>>
  /\ hub = {}
  /\ rc = EmptyClient
  /\ lview = EmptyView
  /\ cacheOutcome = "none"
  /\ cacheCalls = 0
  /\ \E n \in NInputs, trend \in TrendInputs, b \in BInputs,
        p \in Units, max_bytes \in ByteBudgets :
       w = WrapperCall(n, trend, b, seeds[p], max_bytes)

WrapperEnterStep ==
  /\ w.pc = "call"
  /\ w' = WrapperEnter(w)
  /\ UNCHANGED <<driverVars, poolVars, clientVars, cacheVars>>

WrapperIterStep ==
  /\ w.pc = "loop"
  /\ WrapperHasNext(w)
  /\ w' = WrapperIter(w)
  /\ UNCHANGED <<driverVars, poolVars, clientVars, cacheVars>>

WrapperReturnStep ==
  /\ w.pc = "loop"
  /\ ~WrapperHasNext(w)
  /\ w' = WrapperReturn(w)
  /\ UNCHANGED <<driverVars, poolVars, clientVars, cacheVars>>

NextWrapper ==
  \/ WrapperEnterStep
  \/ WrapperIterStep
  \/ WrapperReturnStep

SpecWrapper == InitWrapper /\ [][NextWrapper]_vars

\* ----------------------------------------------------------- fairness
\* The script keeps running, the scheduler keeps handing queued units to
\* idle engines, and an engine that runs a unit comes to an end of it unless
\* it hangs.
DriverStep ==
  NextTrend \/ Submit \/ Poll \/ Get \/ ClearCache \/ Reduce \/ Savez

SpecFair ==
  /\ Init
  /\ [][Next]_vars
  /\ WF_vars(DriverStep)
  /\ WF_vars(\E e \in Engines, r \in Units : Schedule(e, r))
  /\ WF_vars(\E e \in Engines : Finish(e) \/ Raise(e) \/ Hang(e))

\* ------------------------------------------------------------ claims
\* The state right after a successful savez of sample length i of tr.
JustCheckpointed ==
  \/ pc = "submit" /\ i >= 1
  \/ pc = "trend" /\ tri >= 1

\* C1: right after the checkpoint of length index i of trend tr, the artifact
\* of tr holds a table whose slices 1..i have no NaN entry and whose slices
\* i+1..m are all NaN.
C1_CheckpointResumable ==
  JustCheckpointed =>
    /\ files[filename].state = "archive"
    /\ \A p \in 1..NumPct, k \in 1..m, r \in Units :
         (k <= i) <=> (files[filename].results[p][k][r] # NaN)

C1_Witness ==
  /\ pc = "submit"
  /\ i = 1
  /\ i < m
  /\ files[filename].state = "archive"

\* C2 as claimed: no two units submitted for different (trend, length index,
\* replication index) triples get the same position of the seed sequence.
C2_PositionUniquePerTriple ==
  \A u \in handed, v \in handed :
    (<<u.tr, u.i, u.r>> # <<v.tr, v.i, v.r>>) => (u.pos # v.pos)

\* C2 amended: the position handed to a unit is decided by its replication
\* index alone: two units get the same position exactly when they have the
\* same replication index, whatever their trend and length index.
C2_PositionPerReplication ==
  \A u \in handed, v \in handed : (u.pos = v.pos) <=> (u.r = v.r)

C2_Witness ==
  \E u \in handed, v \in handed :
    /\ u.tr # v.tr
    /\ u.i # v.i
    /\ u.pos = v.pos
    /\ \E x \in handed : x.tr = u.tr /\ x.i = u.i /\ x.pos # u.pos

\* C4: whatever engines ran the units and in whatever order they finished,
\* the table entry of (length index k, replication r) is the percentile of
\* the vector of the unit submitted with (T[k], tr, EX_SIZE, seeds[r]), and
\* so is every entry of the artifact on disk.
C4_Expected(trend, p, k, r) ==
  Percentile(RunUnit([n |-> T[k], trend |-> trend, b |-> EX_SIZE,
                      rng_seed |-> seeds[r]]), p)

C4_ResultOfItsUnit ==
  /\ \A p \in 1..NumPct, k \in 1..m, r \in Units :
       results[p][k][r] # NaN => results[p][k][r] = C4_Expected(tr, p, k, r)
  /\ \A t \in 1..Len(trends) :
       files[Filename(trends[t])].state = "archive" =>
         \A p \in 1..NumPct, k \in 1..m, r \in Units :
           LET x == files[Filename(trends[t])].results[p][k][r]
           IN  x # NaN => x = C4_Expected(trends[t], p, k, r)

\* The units finished in another order than they were submitted in, on
\* different engines, and the slice was written.
C4_Witness ==
  /\ pc = "savez"
  /\ Len(order) = EX_NUM
  /\ order[1] # 1
  /\ results[1][i][1] # NaN

\* C5: a clear_cache call made while the client has outstanding units ends
\* in the assertion error and leaves the controller's results, the client's
\* results, metadata, history and digest history, and the view's results and
\* history as they were.
C5_GuardedPurge ==
  [][(cacheCalls' # cacheCalls /\ rc.outstanding # {}) =>
       /\ cacheOutcome' = "AssertionError"
       /\ hub' = hub
       /\ rc' = rc
       /\ lview' = lview]_vars

C5_Witness ==
  /\ cacheOutcome = "AssertionError"
  /\ rc.outstanding # {}
  /\ hub # {}
  /\ rc.history # <<>>

\* The statistics among the entries of a result vector.
IsStatistic(v) == "normals" \in DOMAIN v

\* C3: the vector wrapper returns for (n, trend, b, rng_seed) is the same for
\* every memory budget that gives block_size >= 1: every draw is computed
\* from the same stream positions whatever the block size.
C3_BudgetIndependent ==
  (w.pc = "returned" /\ w.block_size >= 1) =>
    \A max_bytes \in ByteBudgets :
      BlockSize(w.n, max_bytes) >= 1 =>
        RunWrapper(WrapperCall(w.n, w.trend, w.b, w.rng_seed, max_bytes)).res
          = w.res

\* C6: a call with n <= 0 or b < 0 never returns a vector: it ends in an
\* error (any exception is taken for the error here, whatever its kind).
C6_ArgumentsValidated ==
  (w.pc # "idle" /\ (w.n <= 0 \/ w.b < 0)) => w.pc # "returned"

\* C7: a call with a trend outside {nc, c, ct, ctt} that gets as far as
\* adf_simulation (n > 0, b > 0) fails with an error and produces no
\* statistic.
C7_TrendRejected ==
  (w.pc \notin {"idle", "call"} /\ w.n > 0 /\ w.b > 0
     /\ w.trend \notin {"nc", "c", "ct", "ctt"}) =>
    /\ w.pc # "returned"
    /\ \A k \in 1..Len(w.res) : ~IsStatistic(w.res[k])

\* C8: when a unit of the current sample length has failed (raised, or will
\* never complete), the polling loop of that sample length is still left.
C8_AwaitExits ==
  (pc = "await" /\ \E r \in Units : task[r] \in {"raised", "hung"})
    ~> (pc # "await")

\* C9: a unit that raises does not abort the driver run.
C9_RaiseDoesNotAbort ==
  (\E r \in Units : task[r] = "raised") => pc # "aborted"

\* C10: when the write of the checkpoint of length index i fails, the
\* checkpoint written after length index i - 1 is still on disk and loadable,
\* with every slice of the lengths completed before, and the run aborts.
C10_PreviousCheckpointKept ==
  (abort = "PersistenceFailure" /\ i > 1) =>
    /\ pc = "aborted"
    /\ files[filename].state = "archive"
    /\ \A p \in 1..NumPct, k \in 1..(i - 1), r \in Units :
         /\ files[filename].results[p][k][r] = results[p][k][r]
         /\ files[filename].results[p][k][r] # NaN

\* The budgets that are a whole number of MiB, budget_MiB >= 1.
WholeMiB(max_bytes) == max_bytes >= MiB /\ max_bytes % MiB = 0

\* C11 as claimed: for n >= 1 and a budget of budget_MiB >= 1 MiB the block's
\* matrix of n + 50 rows by block_size columns of 8-byte floats fits the
\* budget, 8 * (n + 50) * block_size <= 2^20 * budget_MiB (both sides are
\* divided by 8 here, the budget being a multiple of 8).
C11_FullMatrixWithinBudget ==
  (w.pc \in {"loop", "returned"} /\ w.n >= 1 /\ WholeMiB(w.max_bytes)) =>
    (w.n + BURN_IN) * w.block_size <= w.max_bytes \div 8

\* C11 amended: the n rows kept after the burn-in fit the budget,
\* 8 * n * block_size <= 2^20 * budget, and the matrix of n + 50 rows that a
\* block allocates is over the budget by at most 8 * 50 * block_size bytes.
C11_KeptRowsWithinBudget ==
  (w.pc \in {"loop", "returned"} /\ w.n >= 1) =>
    /\ w.block_size = w.max_bytes \div (8 * w.n)
    /\ w.n * w.block_size <= w.max_bytes \div 8
    /\ \A k \in 1..Len(w.blocks) :
         /\ w.blocks[k].y_rows = w.n + BURN_IN
         /\ w.blocks[k].count <= w.block_size
         /\ w.blocks[k].y_rows * w.blocks[k].count
              <= w.max_bytes \div 8 + BURN_IN * w.block_size

\* A block was drawn under a whole-MiB budget whose full matrix bound fails.
C11_Witness ==
  /\ w.pc = "returned"
  /\ w.n >= 1
  /\ WholeMiB(w.max_bytes)
  /\ Len(w.blocks) >= 1
  /\ (w.n + BURN_IN) * w.block_size > w.max_bytes \div 8

Min(x, y) == IF x < y THEN x ELSE y

\* C12: for n >= 1, b >= 0 and block_size >= 1 the loop makes at most b
\* passes; finished + remaining = b after every pass; each block has
\* min(block_size, remaining) draws, between 1 and block_size; the ranges
\* [st, en) follow one another from 0 without gap or overlap; and on return
\* finished = b, remaining = 0 and every position of [0, b) was written by
\* exactly one block.
C12_Tiling ==
  (w.pc \in {"loop", "returned"} /\ w.n >= 1) =>
    /\ w.block_size >= 1
    /\ w.finished + w.remaining = w.b
    /\ Len(w.blocks) <= w.b
    /\ w.j = Len(w.blocks) * w.block_size
    /\ \A k \in 1..Len(w.blocks) :
         LET blk == w.blocks[k] IN
           /\ blk.st = (IF k = 1 THEN 0 ELSE w.blocks[k - 1].en)
           /\ blk.en = blk.st + blk.count
           /\ blk.count = Min(w.block_size, w.b - blk.st)
           /\ 1 <= blk.count /\ blk.count <= w.block_size
           /\ blk.en <= w.b
    /\ \A pos \in 1..w.b :
         /\ Cardinality({k \in 1..Len(w.blocks) :
                           w.blocks[k].st < pos /\ pos <= w.blocks[k].en}) <= 1
         /\ IsStatistic(w.res[pos]) <=> pos <= w.finished
    /\ w.pc = "returned" =>
         /\ w.finished = w.b
         /\ w.remaining = 0
         /\ \A pos \in 1..w.b :
              \E k \in 1..Len(w.blocks) :
                w.blocks[k].st < pos /\ pos <= w.blocks[k].en

\* A call returned after several blocks, the last one shorter than the rest.
C12_Witness ==
  /\ w.pc = "returned"
  /\ Len(w.blocks) >= 2
  /\ w.blocks[Len(w.blocks)].count < w.block_size
  /\ w.finished = w.b

\* The stream positions the statistics written so far were computed from.
PositionsUsed ==
  UNION {{w.res[pos].normals[row] : row \in 1..Len(w.res[pos].normals)} :
           pos \in {q \in 1..Len(w.res) : IsStatistic(w.res[q])}}

\* C16: in a call with n >= 1 the generator is seeded once, with rng_seed,
\* before the first block and never again; block k draws from the stream
\* exactly where block k - 1 stopped, (n + 50) * count positions of it; the
\* statistics written so far use every position below the generator's and
\* no other; and on return (n + 50) * b positions were consumed, whatever
\* the block size.
C16_OneContinuousStream ==
  (w.pc \in {"loop", "returned"} /\ w.n >= 1) =>
    /\ w.rng.seedings = 1
    /\ w.rng.seed = w.rng_seed
    /\ \A k \in 1..Len(w.blocks) :
         LET blk == w.blocks[k] IN
           /\ blk.seed = w.rng_seed
           /\ blk.from = (IF k = 1 THEN 0 ELSE w.blocks[k - 1].to)
           /\ blk.to = blk.from + (w.n + BURN_IN) * blk.count
    /\ w.rng.pos = (IF w.blocks = <<>> THEN 0
                    ELSE w.blocks[Len(w.blocks)].to)
    /\ w.rng.pos = (w.n + BURN_IN) * w.finished
    /\ PositionsUsed = 0..(w.rng.pos - 1)
    /\ w.pc = "returned" => w.rng.pos = (w.n + BURN_IN) * w.b

\* A call returned after drawing three blocks from its generator.
C16_Witness ==
  /\ w.pc = "returned"
  /\ w.n >= 1
  /\ Len(w.blocks) = 3
  /\ w.blocks[3].from = w.blocks[2].to
  /\ w.rng.pos = (w.n + BURN_IN) * w.b

\* C17: for n >= 2 and every trend, each block's left-hand and right-hand
\* series have n - 1 rows, which is the number of rows of z when there is a
\* z, and the nobs multiplied into every statistic is n - 1.
C17_SeriesAligned ==
  (w.pc \in {"loop", "returned"} /\ w.n >= 2) =>
    /\ \A k \in 1..Len(w.blocks) :
         LET blk == w.blocks[k] IN
           /\ blk.lhs_rows = w.n - 1
           /\ blk.rhs_rows = w.n - 1
           /\ blk.z # NoRegressors => blk.z.rows = blk.lhs_rows
    /\ \A pos \in 1..Len(w.res) :
         IsStatistic(w.res[pos]) => w.res[pos].nobs = w.n - 1

\* A block was simulated with a regressor matrix of three columns.
C17_Witness ==
  /\ w.pc = "returned"
  /\ w.n >= 2
  /\ w.trend = "ctt"
  /\ Len(w.blocks) >= 1
  /\ w.blocks[1].z.cols = 3
  /\ w.blocks[1].lhs_rows = w.n - 1

\* C13: out and the slice of the current sample length are only filled once
\* the client has the reply of every unit of the batch: res.get() is reached
\* with no unit outstanding, and from there to the checkpoint every unit has
\* returned its vector; no entry of slice i is written while a unit of
\* sample length i is queued, running or hung.
C13_NoPartialConsumption ==
  /\ pc = "get" =>
       /\ rc.outstanding \cap Units = {}
       /\ \A r \in Units : Finished(r)
  /\ pc \in {"clear", "reduce", "savez"} =>
       /\ \A r \in Units : task[r] = "ok" /\ out[r] = value[r] /\ out[r] # NaN
  /\ (tri >= 1 /\ i >= 1
        /\ \E p \in 1..NumPct, r \in Units : results[p][i][r] # NaN) =>
       /\ rc.outstanding = {}
       /\ \A r \in Units : task[r] = "ok"

\* The slice of the second sample length was written after both units of
\* its batch had finished, the second-submitted one first.
C13_Witness ==
  /\ pc = "savez"
  /\ i = 2
  /\ order = <<2, 1>>
  /\ \A p \in 1..NumPct, r \in Units : results[p][i][r] # NaN

\* The number of the round the driver is in, 0 before the first.
Round == IF tri = 0 THEN 0 ELSE (tri - 1) * m + i

\* C14: clear_cache is entered with no unit outstanding, so its assertion
\* never fires; it has been called once for every round whose results were
\* collected and for no other; and a batch is submitted only when the purge
\* of the round before has emptied what the pool and the client retained.
C14_PurgeOnlyWhenIdle ==
  /\ cacheOutcome # "AssertionError"
  /\ abort # "AssertionError"
  /\ pc = "clear" => rc.outstanding = {} /\ (\A r \in Units : task[r] = "ok")
  /\ cacheCalls =
       (IF pc \in {"await", "get", "clear"}
             \/ (pc = "aborted" /\ abort = "WorkerFailure")
          THEN Round - 1 ELSE Round)
  /\ pc \in {"reduce", "savez"} => cacheOutcome = "purged"
  /\ pc = "submit" =>
       /\ hub = {}
       /\ rc = EmptyClient
       /\ lview = EmptyView
  /\ pc = "await" => Len(rc.history) = EX_NUM /\ Len(lview.history) = EX_NUM

\* The second round's batch is out after the purge of the first round.
C14_Witness ==
  /\ pc = "await"
  /\ Round = 2
  /\ cacheCalls = 1
  /\ cacheOutcome = "purged"
  /\ rc.outstanding = Units

\* The order in which the script goes from one step to the next.
StepOrder ==
  {<<"trend", "submit">>, <<"submit", "await">>, <<"await", "get">>,
   <<"get", "clear">>, <<"clear", "reduce">>, <<"reduce", "savez">>,
   <<"savez", "submit">>, <<"savez", "trend">>, <<"trend", "done">>,
   <<"get", "aborted">>, <<"clear", "aborted">>, <<"savez", "aborted">>}

\* C15: the driver goes submit, await, collect (get, purge), reduce,
\* checkpoint for one sample length after the other; the length index goes
\* up by one per round from 1 to m, the lengths submitted going strictly
\* down; a batch is submitted only when no unit of the batch before is
\* unfinished; the trends are taken one after the other as nc, c, ct, ctt,
\* each after the last length of the one before; and at the end every
\* (trend, length) was submitted.
C15_RoundOrder ==
  /\ [][pc' # pc => <<pc, pc'>> \in StepOrder]_vars
  /\ [][i' # i => \/ pc = "submit" /\ i' = i + 1 /\ i' <= m
                  \/ pc = "trend" /\ i' = 0]_vars
  /\ [][tri' # tri => /\ pc = "trend"
                      /\ tri' = tri + 1
                      /\ tri = 0 \/ i = m]_vars
  /\ [][(pc = "submit" /\ pc' = "await") =>
          /\ \A r \in Units : task[r] \in {"none", "ok"}
          /\ \A r \in Units : targs'[r].n = T[i'] /\ targs'[r].trend = tr
          /\ i' > 1 => T[i'] < T[i' - 1]]_vars
  /\ [](tri >= 1 => tr = <<"nc", "c", "ct", "ctt">>[tri])
  /\ [](pc = "done" =>
          /\ tri = 4
          /\ i = m
          /\ {<<u.tr, u.i>> : u \in handed}
               = {"nc", "c", "ct", "ctt"} \X (1..m))

\* The script came to its end with the artifact of every trend written.
C15_Witness ==
  /\ pc = "done"
  /\ tri = 4
  /\ \A f \in Filenames : files[f].state = "archive"

\* C18: a file changes only in the checkpoint step and only the artifact of
\* the current trend, which then names that trend; the table of a trend
\* starts all NaN; the artifact of every trend the driver has left behind
\* names its own trend and has no NaN entry, and the artifacts of the trends
\* to come do not exist yet.
C18_FinishedTrendsKept ==
  /\ [][\A f \in Filenames :
          files'[f] # files[f] =>
            /\ pc = "savez"
            /\ f = filename
            /\ files'[f].state = "archive" => files'[f].trend = tr]_vars
  /\ [](pc = "submit" /\ i = 0 => results = NanTable)
  /\ [](\A k \in 1..Len(trends) :
          /\ k < tri =>
               LET a == files[Filename(trends[k])] IN
                 /\ a.state = "archive"
                 /\ a.trend = trends[k]
                 /\ \A p \in 1..NumPct, j \in 1..m, r \in Units :
                      a.results[p][j][r] # NaN
          /\ k > tri => files[Filename(trends[k])] = Absent)

\* The second trend checkpointed its first length beside the first trend's
\* finished artifact.
C18_Witness ==
  /\ tri = 2
  /\ pc = "submit"
  /\ i = 1
  /\ files[Filename("c")].state = "archive"
  /\ files[Filename("nc")].state = "archive"
  /\ files[Filename("c")].results # files[Filename("nc")].results

====
